---- MODULE Spec2Model ----
(***************************************************************************)
(* Model of the measurement orchestration engine of                        *)
(* waveguide-control-python: Measurement (src/src/measurement/             *)
(* main_measurement.py), driven by the Start/Stop buttons of               *)
(* MeasurementTab (src/src/gui/tab_measurement.py), configured by          *)
(* ScriptTab (src/src/gui/tab_script.py), with the user script as the      *)
(* environment.                                                            *)
(*                                                                         *)
(* Everything runs on the one UI thread.  A measure() activation is a      *)
(* frame of `stack`; the only places where other handlers can run are the  *)
(* idle application event loop (empty stack) and the local event loop of   *)
(* wait() (top frame waiting).  An exception that leaves measure() leaves  *)
(* the slot that called it and ends the application: `crashed`.            *)
(***************************************************************************)
EXTENDS Integers, Sequences, FiniteSets, TLC

\* ---------------------------------------------------------------- bounds
\* measure() invocations in one behaviour (sequential or nested in wait())
MaxRuns == 2
\* seconds the wall clock can advance (the save path has 1 s resolution)
MaxTime == 2
\* pulse durations are whole multiples of 1/Resolution ns, up to
\* MaxPulseLength of them; a sequence has up to MaxPulses pulses and is
\* serialized into up to MaxSamples samples
Resolution == 2
MaxPulseLength == 4
MaxPulses == 3
MaxSamples == 6

\* ------------------------------------------------------------- utilities
Range(s) == {s[i] : i \in DOMAIN s}

RECURSIVE SeqProduct(_)
SeqProduct(s) == IF s = <<>> THEN 1 ELSE Head(s) * SeqProduct(Tail(s))

Zeros(n) == [i \in 1..n |-> 0]

\* Python str(n) of a non-negative integer: its decimal digits
Digit(d) == <<"0", "1", "2", "3", "4", "5", "6", "7", "8", "9">>[d + 1]
RECURSIVE Str(_)
Str(n) == IF n < 10 THEN <<Digit(n)>> ELSE Str(n \div 10) \o <<Digit(n % 10)>>

\* Names are sequences of text pieces; the character '/' is always a piece of
\* its own, so that str.replace('/', 'in') can be computed on them.
RECURSIVE NameReplace(_)
NameReplace(name) ==
    IF name = <<>> THEN <<>>
    ELSE (IF Head(name) = "/" THEN <<"i", "n">> ELSE <<Head(name)>>)
         \o NameReplace(Tail(name))

NameSlash == <<"f", "/", "H", "z">>
NameIn    == <<"f", "i", "n", "H", "z">>
NameIterator == <<"Iterator">>
NameTimestamps == <<"Timestamps">>

\* ------------------------------------------------ DataType (lines 17-23)
DataType == {"Number", "Histogram", "Image"}

\* --------------------------------------------------- iterator strings
\* One comma-separated segment of an iterator string, by what float() and
\* re.split('[/;]') make of it:
\*   number: float(segment) succeeds;  range: "start/stop" or "start/stop;step";
\*   text: anything float() rejects in its first field, e.g. "<empty>".
SegNumber(v) == [kind |-> "number", start |-> v, stop |-> v, step |-> 1]
SegRange(a, b, c) == [kind |-> "range", start |-> a, stop |-> b, step |-> c]
SegText == [kind |-> "text", start |-> 0, stop |-> 0, step |-> 1]

\* Python round() of num/den for den > 0: round half to even
RoundDiv(num, den) ==
    LET q == num \div den
        r == num % den
    IN  IF 2 * r < den THEN q
        ELSE IF 2 * r > den THEN q + 1
        ELSE IF q % 2 = 0 THEN q ELSE q + 1

\* np.linspace(start, start + (n - 1) * step, n) for n >= 0
Linspace(start, step, n) == [i \in 1..n |-> start + (i - 1) * step]

\* ScriptTab._iterator_str_to_array: the values, or the exception raised
iterator_str_to_array(seg) ==
    IF seg.kind = "number" THEN [err |-> "none", values |-> <<seg.start>>]
    ELSE IF seg.kind = "text" THEN [err |-> "ValueError", values |-> <<>>]
    ELSE IF seg.step = 0 THEN [err |-> "ZeroDivisionError", values |-> <<>>]
    ELSE LET n_points == IF seg.step > 0
                         THEN RoundDiv(seg.stop - seg.start + seg.step, seg.step)
                         ELSE RoundDiv(seg.start - seg.stop - seg.step, -seg.step)
         IN  IF n_points < 0 THEN [err |-> "ValueError", values |-> <<>>]
             ELSE [err |-> "none", values |-> Linspace(seg.start, seg.step, n_points)]

\* the segments of one iterator string appended in order (lines 146-154)
RECURSIVE AppendSegments(_, _)
AppendSegments(segs, acc) ==
    IF segs = <<>> THEN [err |-> "none", values |-> acc]
    ELSE LET r == iterator_str_to_array(Head(segs))
         IN  IF r.err # "none" THEN r
             ELSE AppendSegments(Tail(segs), acc \o r.values)

\* ScriptTab.iterators_array with "Randomize Iterators" unchecked: the list of
\* (name, values), [] after a ValueError (reported by the tab itself), or the
\* exception that leaves the property
RECURSIVE IteratorsFrom(_, _)
IteratorsFrom(rows, acc) ==
    IF rows = <<>> THEN [err |-> "none", list |-> acc]
    ELSE LET r == AppendSegments(Head(rows).str, <<>>)
         IN  IF r.err = "ValueError" THEN [err |-> "none", list |-> <<>>]
             ELSE IF r.err # "none" THEN [err |-> r.err, list |-> <<>>]
             ELSE IteratorsFrom(Tail(rows),
                      Append(acc, [name |-> Head(rows).name, values |-> r.values]))

iterators_array(rows) ==
    IF rows = <<>>
    THEN [err |-> "none", list |-> <<[name |-> NameIterator, values |-> <<1>>]>>]
    ELSE IteratorsFrom(rows, <<>>)

\* ------------------------------------------------------- the UI's inputs
Row(n, segs) == [name |-> n, str |-> segs]

\* Iterator tables the user can have entered (ScriptTab._tm_iterators)
Tables ==
    { <<>>,                                                       \* no row
      << Row(NameSlash, <<SegText>>) >>,                          \* "<empty>"
      << Row(NameSlash, <<SegRange(1, 2, 1)>>) >>,                \* 2
      << Row(NameSlash, <<SegRange(1, 2, 1)>>),
         Row(NameIn, <<SegRange(1, 3, 1)>>) >>,                   \* 2 x 3
      << Row(NameSlash, <<SegRange(1, 2, 1)>>),
         Row(NameSlash, <<SegNumber(5), SegNumber(7)>>) >>,       \* same name twice
      << Row(NameIn, <<SegRange(5, 4, 1)>>) >>,                   \* "5/4": no value
      << Row(NameIn, <<SegRange(1, 2, 1)>>),
         Row(NameSlash, <<SegNumber(3)>>),
         Row(NameIterator, <<SegRange(4, 2, -2)>>) >>,            \* 2 x 1 x 2
      << Row(NameSlash, <<SegRange(0, 1, 0)>>) >> }               \* step 0

\* what the user can have made of the table while a run waits in wait(): an
\* iterator string that is no list of numbers, or a single short range
TablesWhileRunning ==
    { << Row(NameSlash, <<SegText>>) >>,
      << Row(NameSlash, <<SegRange(1, 2, 1)>>) >> }

\* the script's parameters (class attribute `parameters`) with the values of
\* the form (ScriptTab.parameters)
ParamNames == {NameSlash, NameIn}
UiParameters == [n \in ParamNames |-> 0]

\* ------------------------------------------------------ the user script
\* What a callback of the script does, as the calls it makes on the engine.
OpAddObservable(n, t, sv, pl) ==
    [op |-> "add_observable", name |-> n, data_type |-> t, save |-> sv, plot |-> pl]
OpAddDataPoint(n) ==
    [op |-> "add_data_point", name |-> n, data_type |-> "Number", save |-> FALSE, plot |-> FALSE]
OpWait ==
    [op |-> "wait", name |-> <<>>, data_type |-> "Number", save |-> FALSE, plot |-> FALSE]

Script(setup, run) ==
    [setup_measurement |-> setup, run_measurement |-> run, shutdown_measurement |-> <<>>]

\* Scripts, by what their callbacks do under the parameter values of a run
Scripts ==
    { \* no observable
      Script(<<>>, <<>>),
      \* one Number observable, not plotted, written once per point
      Script(<< OpAddObservable(NameSlash, "Number", TRUE, FALSE) >>,
             << OpAddDataPoint(NameSlash) >>),
      \* the same, after a wait()
      Script(<< OpAddObservable(NameSlash, "Number", TRUE, FALSE) >>,
             << OpWait, OpAddDataPoint(NameSlash) >>),
      \* registered with the defaults of add_observable: save and plot
      Script(<< OpAddObservable(NameSlash, "Number", TRUE, TRUE) >>,
             << OpAddDataPoint(NameSlash) >>),
      \* a Histogram written twice per point, and an Image
      Script(<< OpAddObservable(NameSlash, "Histogram", TRUE, FALSE),
                OpAddObservable(NameIn, "Image", TRUE, FALSE) >>,
             << OpAddDataPoint(NameSlash), OpAddDataPoint(NameSlash),
                OpAddDataPoint(NameIn) >>),
      \* one observable not saved, one saved
      Script(<< OpAddObservable(NameSlash, "Number", FALSE, FALSE),
                OpAddObservable(NameIn, "Number", TRUE, FALSE) >>,
             << OpAddDataPoint(NameSlash), OpAddDataPoint(NameIn) >>),
      \* an observable whose data_type is none of DataType
      Script(<< OpAddObservable(NameSlash, "Vector", TRUE, FALSE) >>,
             << OpAddDataPoint(NameSlash) >>),
      \* one observable written, and then one that is not registered
      Script(<< OpAddObservable(NameIn, "Number", TRUE, FALSE) >>,
             << OpAddDataPoint(NameIn), OpAddDataPoint(NameSlash) >>) }

\* the data a script hands to add_data_point: distinct for every call of a run
DataValue(call, ip) == 10 * call + ip

\* -------------------------------------------------------------- tracebacks
\* traceback.format_exc() split into lines.  A '  File "<path>", line N, in f'
\* line carries its path split at os.sep and the number of fields that
\* line.split(', ') yields (3 unless a ', ' occurs in the path).
TbFile(path, nfields) == [isFile |-> TRUE, path |-> path, fields |-> nfields]
TbText == [isFile |-> FALSE, path |-> <<>>, fields |-> 1]

\* "scripts" in <piece>
HasScripts(piece) == piece \in {"scripts", "lab_scripts"}

EngineFrame == TbFile(<<"home", "meca", "src", "measurement", "main_measurement.py">>, 3)

Tracebacks ==
    { \* the script below <cwd>/scripts
      << TbText, EngineFrame, TbText,
         TbFile(<<"home", "meca", "scripts", "odmr", "rabi.py">>, 3), TbText, TbText >>,
      \* no line mentions "scripts"
      << TbText, EngineFrame, TbText,
         TbFile(<<"home", "meca", "plugins", "rabi.py">>, 3), TbText, TbText >>,
      \* the application installed below a directory "lab_scripts"
      << TbText,
         TbFile(<<"home", "lab_scripts", "src", "measurement", "main_measurement.py">>, 3),
         TbText,
         TbFile(<<"home", "lab_scripts", "scripts", "odmr", "rabi.py">>, 3), TbText, TbText >>,
      \* a ', ' inside the script's path
      << TbText, EngineFrame, TbText,
         TbFile(<<"home", "meca", "scripts", "odmr, old", "rabi.py">>, 4), TbText, TbText >> }

\* index of the first piece equal to "scripts", 0 if there is none
RECURSIVE IndexOf(_, _, _)
IndexOf(path, piece, i) ==
    IF i > Len(path) THEN 0
    ELSE IF path[i] = piece THEN i ELSE IndexOf(path, piece, i + 1)

\* Measurement._parse_traceback (lines 284-311): the locator, or the exception
\* the parsing itself raises
RECURSIVE ParseFrom(_, _)
ParseFrom(tb, i) ==
    IF i > Len(tb) THEN [err |-> "none", file |-> <<"<File not found>">>]
    ELSE IF tb[i].isFile /\ \E k \in DOMAIN tb[i].path : HasScripts(tb[i].path[k])
    THEN IF tb[i].fields # 3 THEN [err |-> "ValueError", file |-> <<>>]
         ELSE IF IndexOf(tb[i].path, "scripts", 1) = 0
              THEN [err |-> "ValueError", file |-> <<>>]
         ELSE IF i + 1 > Len(tb) THEN [err |-> "IndexError", file |-> <<>>]
         ELSE [err |-> "none",
               file |-> SubSeq(tb[i].path, IndexOf(tb[i].path, "scripts", 1) + 1,
                               Len(tb[i].path))]
    ELSE ParseFrom(tb, i + 1)

parse_traceback(tb) == ParseFrom(tb, 1)

\* ------------------------------------------------------------------ state
VARIABLES
    \* the Measurement instance (lines 34-42)
    observables,        \* insertion-ordered dict: sequence of attribute records
    current_point,
    flag_stop,
    number_points,
    timestamps,
    iterators_list,
    parameters_dict,    \* reference to a dict of `dicts`; 0: the {} of __init__
    save_file_path,     \* the second the run directory is named after; 0: None
    \* the parameter dicts handed out by ScriptTab.parameters, by run
    dicts,
    \* ScriptTab: the iterator table as last read by measure(); the script the
    \* Measurement was made from
    table,
    script,
    \* the run directories below data/, by the second in their name, and the
    \* content of raw_data.h5 in the newest of them (older records are never
    \* opened again)
    paths,
    raw_data,
    \* wall clock, in seconds
    now,
    \* the activations of measure(), innermost last
    stack,
    \* the exception that left a slot and ended the application, or "none"
    crashed,
    \* measure() invocations so far
    runs,
    \* history: the names ever registered with add_observable on this instance
    registered,
    \* a Sequence object of pulse_sequence.py: its pulses and its length in ns;
    \* the argument and the outcome of its last get_sequence_list call
    sequence,
    length,
    n_samples,
    ret

engine == <<observables, current_point, flag_stop, number_points, timestamps,
            iterators_list, parameters_dict, save_file_path>>
pulse_sequence == <<sequence, length, n_samples, ret>>
vars == <<observables, current_point, flag_stop, number_points, timestamps,
          iterators_list, parameters_dict, save_file_path, dicts, table, script,
          paths, raw_data, now, stack, crashed, runs, registered, pulse_sequence>>

\* ---------------------------------------------------------------- helpers
EmptyDict == [k \in {} |-> 0]
Put(d, k, v) == [x \in DOMAIN d \cup {k} |-> IF x = k THEN v ELSE d[x]]

NoFile == [exists |-> FALSE, meta |-> {}, iterators |-> EmptyDict, observables |-> EmptyDict]
\* lines 77-80: the three groups, empty
EmptyFile == [exists |-> TRUE, meta |-> {}, iterators |-> EmptyDict, observables |-> EmptyDict]

MetaNames == {"Measurement", "Script", "Iterators", "Parameters", "Comments", "Devices"}

Top == stack[Len(stack)]
SetTop(f) == [stack EXCEPT ![Len(stack)] = f]

\* the event loop is running: the application is idle or inside wait()
EventLoopLive == crashed = "none" /\ (IF stack = <<>> THEN TRUE ELSE Top.waiting)
\* code of the top activation is running
Running == crashed = "none" /\ (IF stack = <<>> THEN FALSE ELSE ~Top.waiting)
At(pc) == Running /\ Top.pc = pc

CallbackPcs == {"setup_measurement", "run_measurement", "shutdown_measurement"}
SweepPcs == {"loop", "run_measurement", "report_run", "point"}

NewFrame(run) ==
    [run |-> run, pc |-> "devices", ip |-> 0, waiting |-> FALSE, exc |-> <<>>,
     var_dict |-> 0, iterators_array |-> <<>>, index |-> 0, pos |-> <<>>,
     \* history of the activation, for stating properties
     calls |-> 0, done |-> 0, saves |-> 0, shutdowns |-> 0, reports |-> 0,
     setup_ok |-> FALSE, reentered |-> FALSE, stop_at |-> -1,
     fault |-> "none", err |-> "none", fault_at |-> -1]

\* history: flag_stop became true; remember how many points each sweep had begun
MarkStop(stk) ==
    [i \in DOMAIN stk |->
        IF stk[i].pc \in SweepPcs /\ stk[i].stop_at = -1
        THEN [stk[i] EXCEPT !.stop_at = stk[i].calls] ELSE stk[i]]

\* history: another measure() started inside these activations
MarkReentered(stk) == [i \in DOMAIN stk |-> [stk[i] EXCEPT !.reentered = TRUE]]

ObsIndex(obs, name) == IndexOf([i \in DOMAIN obs |-> obs[i].name], name, 1)

\* Measurement.add_observable (lines 159-172): observables[name] = attributes
add_observable(obs, name, data_type, save, plot) ==
    LET rec == [name |-> name, data_type |-> data_type, save |-> save, plot |-> plot,
                data |-> EmptyDict]
        i == ObsIndex(obs, name)
    IN  IF i = 0 THEN Append(obs, rec) ELSE [obs EXCEPT ![i] = rec]

\* Measurement.add_data_point (lines 174-194): the observables afterwards, or
\* the exception raised
HistogramKey(pos_1, pos_2) == Str(pos_1) \o <<"_">> \o Str(pos_2)

\* a variant without the assertion of line 181: the name is registered on
\* first use
add_data_point_unchecked(obs, iters, point, name, data) ==
    IF ObsIndex(obs, name) = 0
    THEN [err |-> "none", observables |-> add_observable(obs, name, "Number", TRUE, FALSE)]
    ELSE [err |-> "none", observables |-> obs]

\* a variant whose Histogram branch (lines 191-194) keeps a record that is
\* already stored under the key
add_data_point_keep_first(obs, iters, point, name, data) ==
    LET i == ObsIndex(obs, name)
    IN  IF i = 0 THEN [err |-> "AssertionError", observables |-> obs]
        ELSE IF iters = <<>> THEN [err |-> "IndexError", observables |-> obs]
        ELSE IF Len(iters[1].values) = 0
             THEN [err |-> "ZeroDivisionError", observables |-> obs]
        ELSE
        LET len0 == Len(iters[1].values)
            pos_1 == point % len0
            pos_2 == point \div len0
            d == obs[i].data
        IN  IF obs[i].data_type = "Number"
            THEN IF Str(pos_2) \in DOMAIN d /\ pos_1 + 1 > Len(d[Str(pos_2)])
                 THEN [err |-> "IndexError", observables |-> obs] ELSE
                 LET col == IF Str(pos_2) \in DOMAIN d THEN d[Str(pos_2)] ELSE Zeros(len0)
                 IN  [err |-> "none",
                      observables |->
                         [obs EXCEPT ![i].data =
                             Put(d, Str(pos_2), [col EXCEPT ![pos_1 + 1] = data])]]
            ELSE IF obs[i].data_type = "Histogram" /\ HistogramKey(pos_1, pos_2) \notin DOMAIN d
            THEN [err |-> "none",
                  observables |->
                     [obs EXCEPT ![i].data =
                         Put(d, HistogramKey(pos_1, pos_2),
                             [data |-> data, index |-> data])]]
            ELSE [err |-> "none", observables |-> obs]

add_data_point(obs, iters, point, name, data) ==
    LET i == ObsIndex(obs, name)
    IN  IF i = 0 THEN [err |-> "AssertionError", observables |-> obs]
        ELSE IF iters = <<>> THEN [err |-> "IndexError", observables |-> obs]
        ELSE IF Len(iters[1].values) = 0
             THEN [err |-> "ZeroDivisionError", observables |-> obs]
        ELSE
        LET len0 == Len(iters[1].values)
            pos_1 == point % len0
            pos_2 == point \div len0
            d == obs[i].data
        IN  IF obs[i].data_type = "Number"
            THEN IF Str(pos_2) \in DOMAIN d /\ pos_1 + 1 > Len(d[Str(pos_2)])
                 THEN [err |-> "IndexError", observables |-> obs] ELSE
                 LET col == IF Str(pos_2) \in DOMAIN d THEN d[Str(pos_2)] ELSE Zeros(len0)
                 IN  [err |-> "none",
                      observables |->
                         [obs EXCEPT ![i].data =
                             Put(d, Str(pos_2), [col EXCEPT ![pos_1 + 1] = data])]]
            ELSE IF obs[i].data_type = "Histogram"
            THEN [err |-> "none",
                  observables |->
                     [obs EXCEPT ![i].data =
                         Put(d, HistogramKey(pos_1, pos_2),
                             [data |-> data, index |-> data])]]
            ELSE [err |-> "none", observables |-> obs]

\* Measurement.save_data (lines 207-274) on the file at save_file_path: the
\* file afterwards and the exception raised, if any.  h5py's create_dataset and
\* create_group raise ValueError when the name exists in the group.
RECURSIVE SaveIterators(_, _)
SaveIterators(file, iters) ==
    IF iters = <<>> THEN [err |-> "none", file |-> file]
    ELSE LET name == NameReplace(Head(iters).name)
         IN  IF name \in DOMAIN file.iterators THEN [err |-> "ValueError", file |-> file]
             ELSE SaveIterators(
                      [file EXCEPT !.iterators = Put(file.iterators, name, Head(iters).values)],
                      Tail(iters))

\* the datasets of one observable's group (lines 267-274)
ObservableDatasets(o) ==
    IF o.data_type = "Number" THEN o.data
    ELSE IF o.data_type = "Histogram" THEN [k \in DOMAIN o.data |-> o.data[k].data]
    ELSE EmptyDict

RECURSIVE SaveObservables(_, _)
SaveObservables(file, obs) ==
    IF obs = <<>> THEN [err |-> "none", file |-> file]
    ELSE IF ~Head(obs).save THEN SaveObservables(file, Tail(obs))
    ELSE LET name == NameReplace(Head(obs).name)
         IN  IF name \in DOMAIN file.observables THEN [err |-> "ValueError", file |-> file]
             ELSE SaveObservables(
                      [file EXCEPT !.observables =
                          Put(file.observables, name, ObservableDatasets(Head(obs)))],
                      Tail(obs))

\* a variant that persists only the timestamps of the completed points instead
\* of the whole array (line 253)
save_data_completed_only(file, stamps, stop, iters, obs) ==
    IF Len(stamps) = 0 THEN [err |-> "IndexError", file |-> file]
    ELSE IF "Measurement" \in file.meta THEN [err |-> "ValueError", file |-> file]
    ELSE LET f1 == [file EXCEPT !.meta = MetaNames \cup (IF stop THEN {"Abort Flag"} ELSE {})]
             f2 == [f1 EXCEPT !.iterators =
                       Put(f1.iterators, NameTimestamps, SelectSeq(stamps, LAMBDA t : t # 0))]
             r3 == SaveIterators(f2, iters)
         IN  IF NameTimestamps \in DOMAIN f1.iterators THEN [err |-> "ValueError", file |-> f1]
             ELSE IF r3.err # "none" THEN r3
             ELSE SaveObservables(r3.file, obs)

\* a variant that writes the abort marker when the last timestamp is unset
\* instead of when flag_stop is set (line 249)
save_data_by_timestamp(file, stamps, stop, iters, obs) ==
    IF Len(stamps) = 0 THEN [err |-> "IndexError", file |-> file]
    ELSE IF "Measurement" \in file.meta THEN [err |-> "ValueError", file |-> file]
    ELSE LET f1 == [file EXCEPT !.meta = MetaNames \cup (IF stamps[Len(stamps)] = 0
                                                         THEN {"Abort Flag"} ELSE {})]
             f2 == [f1 EXCEPT !.iterators = Put(f1.iterators, NameTimestamps, stamps)]
             r3 == SaveIterators(f2, iters)
         IN  IF NameTimestamps \in DOMAIN f1.iterators THEN [err |-> "ValueError", file |-> f1]
             ELSE IF r3.err # "none" THEN r3
             ELSE SaveObservables(r3.file, obs)

save_data(file, stamps, stop, iters, obs) ==
    IF Len(stamps) = 0 THEN [err |-> "IndexError", file |-> file]       \* line 216
    ELSE IF "Measurement" \in file.meta THEN [err |-> "ValueError", file |-> file]
    ELSE LET f1 == [file EXCEPT !.meta = MetaNames \cup (IF stop THEN {"Abort Flag"} ELSE {})]
             f2 == [f1 EXCEPT !.iterators = Put(f1.iterators, NameTimestamps, stamps)]
             r3 == SaveIterators(f2, iters)
         IN  IF NameTimestamps \in DOMAIN f1.iterators THEN [err |-> "ValueError", file |-> f1]
             ELSE IF r3.err # "none" THEN r3
             ELSE SaveObservables(r3.file, obs)

\* ------------------------------------------------------------------- Init
\* no call of get_sequence_list yet
NotCalled == [called |-> FALSE, err |-> "none", array |-> <<>>]

\* the Measurement instance after __init__, the form and the disk
InitMeasurement ==
    /\ observables = <<>>
    /\ current_point = 0
    /\ flag_stop = FALSE
    /\ number_points = 1
    /\ timestamps = <<>>
    /\ iterators_list = <<>>
    /\ parameters_dict = 0
    /\ save_file_path = 0
    /\ dicts = [r \in 1..MaxRuns |-> EmptyDict]
    /\ table = <<>>
    /\ script = Script(<<>>, <<>>)
    /\ paths = {}
    /\ raw_data = NoFile
    /\ now = 1
    /\ stack = <<>>
    /\ crashed = "none"
    /\ runs = 0
    /\ registered = {}

\* the application without a pulse sequence
Init ==
    /\ InitMeasurement
    /\ sequence = <<>>
    /\ length = 0
    /\ n_samples = 0
    /\ ret = NotCalled

\* ------------------------------------------------------- the UI's handlers
\* a variant of measure() that fetches the iterators (lines 60-62) before it
\* resets the run state (lines 55-57)
StartClickedCheckFirst ==
    /\ EventLoopLive
    /\ runs < MaxRuns
    /\ runs' = runs + 1
    \* the form: between runs any table and script; while a run waits, the
    \* table as it is or edited, and the script the instance was made from
    /\ IF stack = <<>>
       THEN (\E t \in Tables : table' = t) /\ (\E sc \in Scripts : script' = sc)
       ELSE (\E t \in {table} \cup TablesWhileRunning : table' = t) /\ script' = script
    /\ IF iterators_array(table').err = "none" /\ iterators_array(table').list = <<>>
       THEN UNCHANGED <<observables, current_point, flag_stop>>
       ELSE observables' = <<>> /\ current_point' = 0 /\ flag_stop' = FALSE
    /\ LET r == iterators_array(table')
           n == SeqProduct([i \in DOMAIN r.list |-> Len(r.list[i].values)])
       IN  IF r.err # "none"
           THEN /\ crashed' = r.err
                /\ stack' = MarkReentered(stack)
                /\ UNCHANGED <<number_points, timestamps, iterators_list, parameters_dict,
                               save_file_path, dicts, paths, raw_data>>
           ELSE IF r.list = <<>>
           THEN /\ iterators_list' = r.list
                /\ stack' = MarkReentered(stack)
                /\ UNCHANGED <<number_points, timestamps, parameters_dict, save_file_path,
                               dicts, paths, raw_data, crashed>>
           ELSE /\ iterators_list' = r.list
                /\ parameters_dict' = runs'
                /\ dicts' = [d \in DOMAIN dicts |->
                                IF d = runs' THEN UiParameters
                                ELSE IF \E i \in DOMAIN stack : stack[i].var_dict = d
                                THEN dicts[d] ELSE EmptyDict]
                /\ number_points' = n
                /\ timestamps' = Zeros(n)
                /\ save_file_path' = now
                /\ IF now \in paths
                   THEN /\ crashed' = "ValueError"
                        /\ stack' = MarkReentered(stack)
                        /\ UNCHANGED <<paths, raw_data>>
                   ELSE /\ paths' = paths \cup {now}
                        /\ raw_data' = EmptyFile
                        /\ crashed' = crashed
                        /\ stack' = Append(MarkReentered(stack), NewFrame(runs'))
    /\ UNCHANGED <<pulse_sequence, now, registered>>

\* MeasurementTab._handle_button_start (lines 170-176) calls measure(), which
\* runs without interruption up to line 80: the per-run variables are reset
\* (54-57), iterators and parameters are read from the script tab (59-63; the
\* table holds whatever the user has entered by now), number_points and the
\* timestamps are set up (65-69), the run directory named after the current
\* second and the three groups of raw_data.h5, opened in mode 'a', are
\* created (71-80).  Between runs the user may have changed the parameter
\* values, and with them what the script does; parameter dicts that nothing
\* refers to any more are dropped.
StartClicked ==
    /\ EventLoopLive
    /\ runs < MaxRuns
    /\ runs' = runs + 1
    /\ observables' = <<>>
    /\ current_point' = 0
    /\ flag_stop' = FALSE
    \* the form: between runs any table and script; while a run waits, the
    \* table as it is or edited, and the script the instance was made from
    /\ IF stack = <<>>
       THEN (\E t \in Tables : table' = t) /\ (\E sc \in Scripts : script' = sc)
       ELSE (\E t \in {table} \cup TablesWhileRunning : table' = t) /\ script' = script
    /\ LET r == iterators_array(table')
           n == SeqProduct([i \in DOMAIN r.list |-> Len(r.list[i].values)])
       IN  IF r.err # "none"
           THEN /\ crashed' = r.err
                /\ stack' = MarkReentered(stack)
                /\ UNCHANGED <<number_points, timestamps, iterators_list, parameters_dict,
                               save_file_path, dicts, paths, raw_data>>
           ELSE IF r.list = <<>>
           THEN /\ iterators_list' = r.list
                /\ stack' = MarkReentered(stack)
                /\ UNCHANGED <<number_points, timestamps, parameters_dict, save_file_path,
                               dicts, paths, raw_data, crashed>>
           ELSE /\ iterators_list' = r.list
                /\ parameters_dict' = runs'
                /\ dicts' = [d \in DOMAIN dicts |->
                                IF d = runs' THEN UiParameters
                                ELSE IF \E i \in DOMAIN stack : stack[i].var_dict = d
                                THEN dicts[d] ELSE EmptyDict]
                /\ number_points' = n
                /\ timestamps' = Zeros(n)
                /\ save_file_path' = now
                /\ IF now \in paths
                   THEN /\ crashed' = "ValueError"
                        /\ stack' = MarkReentered(stack)
                        /\ UNCHANGED <<paths, raw_data>>
                   ELSE /\ paths' = paths \cup {now}
                        /\ raw_data' = EmptyFile
                        /\ crashed' = crashed
                        /\ stack' = Append(MarkReentered(stack), NewFrame(runs'))
    /\ UNCHANGED <<pulse_sequence, now, registered>>

\* MeasurementTab._handle_button_stop (lines 178-184)
StopClicked ==
    /\ EventLoopLive
    /\ flag_stop' = TRUE
    /\ stack' = MarkStop(stack)
    /\ UNCHANGED <<pulse_sequence, observables, current_point, number_points, timestamps, iterators_list,
                   parameters_dict, save_file_path, dicts, table, script, paths, raw_data, now,
                   crashed, runs, registered>>

\* a second passes while the event loop runs
Tick ==
    /\ EventLoopLive
    /\ now < MaxTime
    /\ now' = now + 1
    /\ UNCHANGED <<pulse_sequence, engine, dicts, table, script, paths, raw_data, stack, crashed, runs, registered>>

\* ------------------------------------------------- Measurement.measure()
\* lines 82-84: soft_reset of every device; a device may fail or lack the method
MeasureDevices ==
    /\ At("devices")
    /\ \/ /\ stack' = SetTop([Top EXCEPT !.pc = "setup_measurement", !.ip = 0])
          /\ crashed' = crashed
       \/ /\ crashed' = "DeviceError"
          /\ stack' = stack
    /\ UNCHANGED <<pulse_sequence, engine, dicts, table, script, paths, raw_data, now, runs, registered>>

\* ---------------------------------------------------- the script's callbacks
Body == script[Top.pc]
InCallback == Running /\ Top.pc \in CallbackPcs
NextOp(op) == InCallback /\ Top.ip < Len(Body) /\ Body[Top.ip + 1].op = op

ReportPc(pc) ==
    CASE pc = "setup_measurement" -> "report_setup"
      [] pc = "run_measurement" -> "report_run"
      [] OTHER -> "report_shutdown"

\* the callback raises: control passes to the except clause of measure() or
\* iterate_measurement() (lines 90, 112, 142)
Raised(f, err) ==
    [f EXCEPT !.pc = ReportPc(f.pc), !.err = err, !.fault = f.pc,
              !.fault_at = IF f.pc = "run_measurement" THEN current_point ELSE f.fault_at]

\* the script calls add_observable
ScriptAddObservable ==
    /\ NextOp("add_observable")
    /\ LET o == Body[Top.ip + 1]
       IN  observables' = add_observable(observables, o.name, o.data_type, o.save, o.plot)
    /\ registered' = registered \cup {Body[Top.ip + 1].name}
    /\ stack' = SetTop([Top EXCEPT !.ip = Top.ip + 1])
    /\ UNCHANGED <<pulse_sequence, current_point, flag_stop, number_points, timestamps, iterators_list,
                   parameters_dict, save_file_path, dicts, table, script, paths, raw_data, now,
                   crashed, runs>>

\* a variant in which the exception of add_data_point is caught by no except
\* clause and leaves measure()
ScriptAddDataPointUncaught ==
    /\ NextOp("add_data_point")
    /\ LET r == add_data_point(observables, iterators_list, current_point,
                               Body[Top.ip + 1].name, DataValue(Top.calls, Top.ip + 1))
       IN  IF r.err = "none"
           THEN /\ observables' = r.observables
                /\ stack' = SetTop([Top EXCEPT !.ip = Top.ip + 1])
                /\ crashed' = crashed
           ELSE /\ observables' = observables
                /\ stack' = stack
                /\ crashed' = r.err
    /\ UNCHANGED <<pulse_sequence, current_point, flag_stop, number_points, timestamps, iterators_list,
                   parameters_dict, save_file_path, dicts, table, script, paths, raw_data, now,
                   runs, registered>>

\* the script calls add_data_point
ScriptAddDataPoint ==
    /\ NextOp("add_data_point")
    /\ LET r == add_data_point(observables, iterators_list, current_point,
                               Body[Top.ip + 1].name, DataValue(Top.calls, Top.ip + 1))
       IN  IF r.err = "none"
           THEN /\ observables' = r.observables
                /\ stack' = SetTop([Top EXCEPT !.ip = Top.ip + 1])
           ELSE /\ observables' = observables
                /\ stack' = SetTop(Raised(Top, r.err))
    /\ UNCHANGED <<pulse_sequence, current_point, flag_stop, number_points, timestamps, iterators_list,
                   parameters_dict, save_file_path, dicts, table, script, paths, raw_data, now,
                   crashed, runs, registered>>

\* the script calls wait(): event_loop_interrupt starts a local event loop
ScriptWait ==
    /\ NextOp("wait")
    /\ stack' = SetTop([Top EXCEPT !.waiting = TRUE])
    /\ UNCHANGED <<pulse_sequence, engine, dicts, table, script, paths, raw_data, now, crashed, runs, registered>>

\* the timer of wait() fires and the local event loop quits
WaitTimeout ==
    /\ crashed = "none"
    /\ IF stack = <<>> THEN FALSE ELSE Top.waiting
    /\ stack' = SetTop([Top EXCEPT !.waiting = FALSE, !.ip = Top.ip + 1])
    /\ UNCHANGED <<pulse_sequence, engine, dicts, table, script, paths, raw_data, now, crashed, runs, registered>>

\* the script's own code or a device call raises an exception
ScriptRaise ==
    /\ InCallback
    /\ stack' = SetTop(Raised(Top, "ScriptError"))
    /\ UNCHANGED <<pulse_sequence, engine, dicts, table, script, paths, raw_data, now, crashed, runs, registered>>

\* a variant in which the sweep starts at once when setup_measurement
\* returns, before the plots are rebuilt (line 100)
SetupReturnToSweep ==
    /\ At("setup_measurement") /\ Top.ip = Len(Body)
    /\ stack' = SetTop([Top EXCEPT !.pc = "iterate", !.setup_ok = TRUE])
    /\ UNCHANGED <<pulse_sequence, engine, dicts, table, script, paths, raw_data, now, crashed, runs, registered>>

\* setup_measurement returns (line 89)
SetupReturn ==
    /\ At("setup_measurement") /\ Top.ip = Len(Body)
    /\ stack' = SetTop([Top EXCEPT !.pc = "plots", !.setup_ok = TRUE])
    /\ UNCHANGED <<pulse_sequence, engine, dicts, table, script, paths, raw_data, now, crashed, runs, registered>>

\* run_measurement returns (line 141)
RunReturn ==
    /\ At("run_measurement") /\ Top.ip = Len(Body)
    /\ stack' = SetTop([Top EXCEPT !.pc = "point"])
    /\ UNCHANGED <<pulse_sequence, engine, dicts, table, script, paths, raw_data, now, crashed, runs, registered>>

\* shutdown_measurement returns (line 111)
ShutdownReturn ==
    /\ At("shutdown_measurement") /\ Top.ip = Len(Body)
    /\ stack' = SetTop([Top EXCEPT !.pc = "return"])
    /\ UNCHANGED <<pulse_sequence, engine, dicts, table, script, paths, raw_data, now, crashed, runs, registered>>

\* ------------------------------------------------------ the except clauses
\* iterate_measurement returns from the loop at `index`: to the loop one level
\* up (line 136), or from the outermost call to measure() (line 104)
ReturnFrom(f, index) ==
    IF index = Len(f.iterators_array) - 1
    THEN [f EXCEPT !.pc = "save"]
    ELSE [f EXCEPT !.pc = "loop", !.index = index + 1]

\* a variant of lines 90-99 without the return of line 99
ReportSetupNoReturn ==
    /\ At("report_setup")
    /\ \E tb \in Tracebacks :
       LET r == parse_traceback(tb)
       IN  IF r.err # "none"
           THEN crashed' = r.err /\ stack' = SetTop([Top EXCEPT !.exc = tb])
           ELSE /\ crashed' = crashed
                /\ stack' = SetTop([Top EXCEPT !.pc = "plots", !.reports = Top.reports + 1])
    /\ UNCHANGED <<pulse_sequence, engine, dicts, table, script, paths, raw_data, now, runs, registered>>

\* lines 90-99: setup_measurement raised
ReportSetup ==
    /\ At("report_setup")
    /\ \E tb \in Tracebacks :
       LET r == parse_traceback(tb)
       IN  IF r.err # "none"
           THEN crashed' = r.err /\ stack' = SetTop([Top EXCEPT !.exc = tb])
           ELSE /\ crashed' = crashed
                /\ stack' = SetTop([Top EXCEPT !.pc = "return", !.reports = Top.reports + 1])
    /\ UNCHANGED <<pulse_sequence, engine, dicts, table, script, paths, raw_data, now, runs, registered>>

\* lines 142-152: run_measurement raised
ReportRun ==
    /\ At("report_run")
    /\ \E tb \in Tracebacks :
       LET r == parse_traceback(tb)
       IN  IF r.err # "none"
           THEN /\ crashed' = r.err
                /\ stack' = SetTop([Top EXCEPT !.exc = tb])
                /\ flag_stop' = flag_stop
           ELSE /\ crashed' = crashed
                /\ flag_stop' = TRUE
                /\ stack' = MarkStop(SetTop(
                       [ReturnFrom(Top, 0) EXCEPT !.reports = Top.reports + 1,
                                                  !.stop_at = IF Top.stop_at = -1
                                                              THEN Top.calls ELSE Top.stop_at]))
    /\ UNCHANGED <<pulse_sequence, observables, current_point, number_points, timestamps, iterators_list,
                   parameters_dict, save_file_path, dicts, table, script, paths, raw_data, now, runs, registered>>

\* a variant of lines 112-120 that handles the fault as lines 142-152 handle a
\* fault of run_measurement: flag_stop is set and persistence runs again
ReportShutdownAsRun ==
    /\ At("report_shutdown")
    /\ \E tb \in Tracebacks :
       LET r == parse_traceback(tb)
       IN  IF r.err # "none"
           THEN /\ crashed' = r.err
                /\ stack' = SetTop([Top EXCEPT !.exc = tb])
                /\ flag_stop' = flag_stop
           ELSE /\ crashed' = crashed
                /\ flag_stop' = TRUE
                /\ stack' = SetTop([Top EXCEPT !.pc = "save", !.reports = Top.reports + 1])
    /\ UNCHANGED <<pulse_sequence, observables, current_point, number_points, timestamps, iterators_list,
                   parameters_dict, save_file_path, dicts, table, script, paths, raw_data, now,
                   runs, registered>>

\* lines 112-120: shutdown_measurement raised
ReportShutdown ==
    /\ At("report_shutdown")
    /\ \E tb \in Tracebacks :
       LET r == parse_traceback(tb)
       IN  IF r.err # "none"
           THEN crashed' = r.err /\ stack' = SetTop([Top EXCEPT !.exc = tb])
           ELSE /\ crashed' = crashed
                /\ stack' = SetTop([Top EXCEPT !.pc = "return", !.reports = Top.reports + 1])
    /\ UNCHANGED <<pulse_sequence, engine, dicts, table, script, paths, raw_data, now, runs, registered>>

\* ------------------------------------------------------------- the sweep
\* line 100: MeasurementTab.initialize_plots (lines 57-106) reads
\* observable_dict["data_format"] of every plotted observable, a key that
\* add_observable never sets
initialize_plots(obs) ==
    IF \E i \in DOMAIN obs : obs[i].plot THEN "KeyError" ELSE "none"

MeasurePlots ==
    /\ At("plots")
    /\ IF initialize_plots(observables) # "none"
       THEN crashed' = initialize_plots(observables) /\ stack' = stack
       ELSE crashed' = crashed /\ stack' = SetTop([Top EXCEPT !.pc = "iterate"])
    /\ UNCHANGED <<pulse_sequence, engine, dicts, table, script, paths, raw_data, now, runs, registered>>

\* a variant of line 104 that starts the recursion on iterator 0
MeasureIterateFirst ==
    /\ At("iterate")
    /\ stack' = SetTop([Top EXCEPT !.pc = "loop",
                                   !.var_dict = parameters_dict,
                                   !.iterators_array = iterators_list,
                                   !.index = 0,
                                   !.pos = Zeros(Len(iterators_list))])
    /\ UNCHANGED <<pulse_sequence, engine, dicts, table, script, paths, raw_data, now, crashed, runs, registered>>

\* line 104: the outermost call of iterate_measurement, on the last iterator
MeasureIterate ==
    /\ At("iterate")
    /\ stack' = SetTop([Top EXCEPT !.pc = "loop",
                                   !.var_dict = parameters_dict,
                                   !.iterators_array = iterators_list,
                                   !.index = Len(iterators_list) - 1,
                                   !.pos = Zeros(Len(iterators_list))])
    /\ UNCHANGED <<pulse_sequence, engine, dicts, table, script, paths, raw_data, now, crashed, runs, registered>>

\* lines 126-141: one turn of the for loop of the call at `index`
IterateNext ==
    /\ At("loop")
    /\ LET f == Top
           i == f.index
           it == f.iterators_array[i + 1]
           g == [f EXCEPT !.pos[i + 1] = f.pos[i + 1] + 1]
       IN  IF f.pos[i + 1] = Len(it.values)
           THEN stack' = SetTop(ReturnFrom(f, i)) /\ dicts' = dicts
           ELSE IF flag_stop
           THEN stack' = SetTop(ReturnFrom(g, i)) /\ dicts' = dicts
           ELSE /\ dicts' = [dicts EXCEPT ![f.var_dict] =
                                Put(dicts[f.var_dict], it.name, it.values[g.pos[i + 1]])]
                /\ IF i > 0
                   THEN stack' = SetTop([g EXCEPT !.index = i - 1, !.pos[i] = 0])
                   ELSE stack' = SetTop([g EXCEPT !.pc = "run_measurement", !.ip = 0,
                                                  !.calls = f.calls + 1])
    /\ UNCHANGED <<pulse_sequence, engine, table, script, paths, raw_data, now, crashed, runs, registered>>

\* MeasurementTab.redraw_plots (lines 108-168), as far as it can fail
redraw_plots(obs, iters) ==
    IF iters = <<>> THEN "IndexError"
    ELSE IF Len(iters[1].values) = 0 THEN "ZeroDivisionError"
    ELSE IF \E i \in DOMAIN obs : obs[i].plot THEN "KeyError"
    ELSE "none"

\* a variant of line 157 that keeps current_point below number_points by
\* wrapping it around
PointDoneWrapped ==
    /\ At("point")
    /\ IF current_point + 1 > Len(timestamps)
       THEN /\ crashed' = "IndexError"
            /\ UNCHANGED <<timestamps, current_point, stack>>
       ELSE /\ timestamps' = [timestamps EXCEPT ![current_point + 1] = now]
            /\ IF redraw_plots(observables, iterators_list) # "none"
               THEN /\ crashed' = redraw_plots(observables, iterators_list)
                    /\ UNCHANGED <<current_point, stack>>
               ELSE /\ crashed' = crashed
                    /\ current_point' = (current_point + 1) % number_points
                    /\ stack' = SetTop([Top EXCEPT !.pc = "loop", !.done = Top.done + 1])
    /\ UNCHANGED <<pulse_sequence, observables, flag_stop, number_points, iterators_list, parameters_dict,
                   save_file_path, dicts, table, script, paths, raw_data, now, runs, registered>>

\* lines 155-157: the point is done
PointDone ==
    /\ At("point")
    /\ IF current_point + 1 > Len(timestamps)
       THEN /\ crashed' = "IndexError"
            /\ UNCHANGED <<timestamps, current_point, stack>>
       ELSE /\ timestamps' = [timestamps EXCEPT ![current_point + 1] = now]
            /\ IF redraw_plots(observables, iterators_list) # "none"
               THEN /\ crashed' = redraw_plots(observables, iterators_list)
                    /\ UNCHANGED <<current_point, stack>>
               ELSE /\ crashed' = crashed
                    /\ current_point' = current_point + 1
                    /\ stack' = SetTop([Top EXCEPT !.pc = "loop", !.done = Top.done + 1])
    /\ UNCHANGED <<pulse_sequence, observables, flag_stop, number_points, iterators_list, parameters_dict,
                   save_file_path, dicts, table, script, paths, raw_data, now, runs, registered>>

\* line 106: save_data
MeasureSave ==
    /\ At("save")
    /\ LET r == save_data(raw_data, timestamps, flag_stop, iterators_list, observables)
       IN  /\ raw_data' = r.file
           /\ IF r.err # "none"
              THEN /\ crashed' = r.err
                   /\ stack' = SetTop([Top EXCEPT !.saves = Top.saves + 1])
              ELSE /\ crashed' = crashed
                   /\ stack' = SetTop([Top EXCEPT !.pc = "shutdown_measurement", !.ip = 0,
                                                  !.saves = Top.saves + 1,
                                                  !.shutdowns = Top.shutdowns + 1])
    /\ UNCHANGED <<pulse_sequence, engine, dicts, table, script, paths, now, runs, registered>>

\* measure() returns to _handle_button_start, and that to the event loop
MeasureReturn ==
    /\ At("return")
    /\ stack' = SubSeq(stack, 1, Len(stack) - 1)
    /\ UNCHANGED <<pulse_sequence, engine, dicts, table, script, paths, raw_data, now, crashed, runs, registered>>

\* --------------------------------------------------------- specification
Next ==
    \/ StartClicked
    \/ StopClicked
    \/ Tick
    \/ MeasureDevices
    \/ ScriptAddObservable
    \/ ScriptAddDataPoint
    \/ ScriptWait
    \/ WaitTimeout
    \/ ScriptRaise
    \/ SetupReturn
    \/ RunReturn
    \/ ShutdownReturn
    \/ ReportSetup
    \/ ReportRun
    \/ ReportShutdown
    \/ MeasurePlots
    \/ MeasureIterate
    \/ IterateNext
    \/ PointDone
    \/ MeasureSave
    \/ MeasureReturn

Spec == Init /\ [][Next]_vars

\* ===================================================================
\* Pulse sequences (pulse_sequence.py)
\* ===================================================================
\* a pulse: its class and its length, here in steps of 1/Resolution ns
Pulse(shape, steps) == [shape |-> shape, length |-> steps]

Pulses == {Pulse(shape, steps) : shape \in {"High", "Low"}, steps \in 1..MaxPulseLength}

RECURSIVE SequencesOf(_)
SequencesOf(n) ==
    IF n = 0 THEN {<<>>}
    ELSE {Append(q, p) : q \in SequencesOf(n - 1), p \in Pulses}

\* the non-empty pulse sequences a script can build
PulseSequences == UNION {SequencesOf(n) : n \in 1..MaxPulses}

\* the factor 1E9 of lines 20 and 29: ns per s
NsPerSecond == 1000000000

\* int(pulse.length * 1E9) (line 20): the whole nanoseconds of a pulse
Nanoseconds(pulse) == pulse.length \div Resolution

\* Sequence.__init__ (lines 16-20): self.length
RECURSIVE SequenceLength(_)
SequenceLength(seq) ==
    IF seq = <<>> THEN 0 ELSE Nanoseconds(Head(seq)) + SequenceLength(Tail(seq))

\* line 29: sample_rate = int(n / len * 1E9) is (n * 1E9 - r) / len for the
\* remainder r of n * 1E9 modulo len, computed here without the large product
SampleRateRemainder(n, len) == ((n % len) * (NsPerSecond % len)) % len

\* int(pulse.length * sample_rate) (lines 32, 34).  With h the steps of the
\* pulse, the product is h * (n * 1E9 - r) / (Resolution * 1E9 * len); for
\* h * n = k * (Resolution * len) + m with 0 <= m < Resolution * len it is
\* k + (m * 1E9 - h * r) / (Resolution * 1E9 * len), whose integer part is k,
\* or k - 1 when m = 0 and r > 0 (h * r is far below 1E9 within the bounds).
PulseSamples(pulse, n, len) ==
    LET k == (pulse.length * n) \div (Resolution * len)
        m == (pulse.length * n) % (Resolution * len)
    IN  IF m = 0 /\ SampleRateRemainder(n, len) > 0 THEN k - 1 ELSE k

Ones(n) == [i \in 1..n |-> 1]

\* the loop of lines 30-36: the array after the pulses of seq, or the exception
RECURSIVE AppendPulses(_, _, _, _)
AppendPulses(arr, seq, n, len) ==
    IF seq = <<>> THEN [err |-> "none", array |-> arr]
    ELSE IF Head(seq).shape = "High"
    THEN AppendPulses(arr \o Ones(PulseSamples(Head(seq), n, len)), Tail(seq), n, len)
    ELSE IF Head(seq).shape = "Low"
    THEN AppendPulses(arr \o Zeros(PulseSamples(Head(seq), n, len)), Tail(seq), n, len)
    ELSE [err |-> "ValueError", array |-> arr]

\* Sequence.get_sequence_list (lines 22-38): the array returned, or the
\* exception raised: the division of line 29 by a length of 0 ns, np.zeros of
\* a negative count at line 37
get_sequence_list(seq, len, n) ==
    IF len = 0 THEN [called |-> TRUE, err |-> "ZeroDivisionError", array |-> <<>>]
    ELSE LET r == AppendPulses(<<>>, seq, n, len)
         IN  IF r.err # "none" THEN [called |-> TRUE, err |-> r.err, array |-> r.array]
             ELSE IF n - Len(r.array) < 0
                  THEN [called |-> TRUE, err |-> "ValueError", array |-> r.array]
             ELSE [called |-> TRUE, err |-> "none",
                   array |-> r.array \o Zeros(n - Len(r.array))]

\* a script has built Sequence(pulse_sequence)
InitSequence ==
    /\ InitMeasurement
    /\ sequence \in PulseSequences
    /\ length = SequenceLength(sequence)
    /\ n_samples = 0
    /\ ret = NotCalled

\* a call of get_sequence_list(n_samples) on it
GetSequenceList ==
    /\ ~ret.called
    /\ \E n \in 1..MaxSamples :
          /\ n_samples' = n
          /\ ret' = get_sequence_list(sequence, length, n)
    /\ UNCHANGED <<sequence, length, engine, dicts, table, script, paths, raw_data, now, stack,
                   crashed, runs, registered>>

NextSequence == GetSequenceList

SpecSequence == InitSequence /\ [][NextSequence]_vars

\* ===================================================================
\* Properties
\* ===================================================================
\* the pcs of an activation whose sweep has ended
AfterSweepPcs == {"save", "shutdown_measurement", "report_shutdown", "return"}

\* the number of points of the iterators 1..j of `its`
RECURSIVE PointsBelow(_, _)
PointsBelow(its, j) ==
    IF j = 0 THEN 1 ELSE Len(its[j].values) * PointsBelow(its, j - 1)

NumPoints(its) == PointsBelow(its, Len(its))

\* the position (from 1) of iterator j at point k (from 0) of the odometer
\* in which iterator 1 of `its` turns fastest
OdometerPos(its, k, j) == ((k \div PointsBelow(its, j - 1)) % Len(its[j].values)) + 1

\* ------------------------------------------------------------------ C1
\* C1: while run_measurement runs for the n-th time in a sweep, every
\* iterator stands at its odometer position for point n-1 (iterator 0
\* fastest, the last slowest), the dict handed to run_measurement holds that
\* value under the iterator's name, and current_point is n-1 (unless another
\* measure() has run in between); a sweep that ended with neither a stop nor
\* a fault has called run_measurement once per element of the product.
C1_OdometerOrder ==
    \A i \in DOMAIN stack :
        LET f == stack[i]
            its == f.iterators_array
        IN  /\ f.pc = "run_measurement" =>
                   /\ \A j \in DOMAIN its :
                          /\ f.pos[j] = OdometerPos(its, f.calls - 1, j)
                          /\ (\A m \in 1..(j - 1) : its[m].name # its[j].name) =>
                                 dicts[f.var_dict][its[j].name] = its[j].values[f.pos[j]]
                   /\ ~f.reentered => current_point = f.calls - 1
            /\ (f.pc \in AfterSweepPcs /\ f.setup_ok /\ f.stop_at = -1 /\ f.fault_at = -1) =>
                   f.calls = NumPoints(its)

\* the last point of a 2 x 3 sweep is running: A is at a1, B at b2
C1_Witness_LastPoint ==
    /\ stack # <<>>
    /\ Top.pc = "run_measurement"
    /\ Len(Top.iterators_array) = 2
    /\ Len(Top.iterators_array[1].values) = 2
    /\ Len(Top.iterators_array[2].values) = 3
    /\ Top.calls = 6
    /\ Top.pos = <<2, 3>>
    /\ current_point = 5

\* ------------------------------------------------------------------ C2
\* C2: once flag_stop has become true during a sweep (Stop button or a
\* per-point fault), that sweep begins no further run_measurement: the
\* number of its invocations stays what it was when the flag was set.
C2_NoRunAfterStop ==
    \A i \in DOMAIN stack :
        stack[i].stop_at >= 0 => stack[i].calls = stack[i].stop_at

\* the same for the activations during which no other measure() was started
C2_NoRunAfterStopUnlessReentered ==
    \A i \in DOMAIN stack :
        (stack[i].stop_at >= 0 /\ ~stack[i].reentered) => stack[i].calls = stack[i].stop_at

\* ------------------------------------------------------------------ C3
\* what holds of activation f after run_measurement raised at point k and the
\* fault was reported
AfterPointFault(f) ==
    LET k == f.fault_at
    IN  /\ f.pc \in {"loop", "save"} => flag_stop
        /\ k + 1 <= Len(timestamps) => timestamps[k + 1] = 0
        /\ f.pc \in {"loop", "save"} => current_point = k
        /\ f.done = f.calls - 1
        /\ f.pc \in {"shutdown_measurement", "report_shutdown", "return"} =>
               f.saves = 1 /\ "Abort Flag" \in raw_data.meta
        /\ (f.saves = 1 /\ crashed # "none") => "Abort Flag" \in raw_data.meta

\* C3: if run_measurement raises at point k, flag_stop is set, timestamps[k]
\* is not written, current_point stays k, no further point is executed, and
\* save_data is invoked and leaves a record that carries the abort marker.
C3_PointFaultEndsSweep ==
    \A i \in DOMAIN stack :
        (stack[i].fault_at >= 0 /\ stack[i].pc # "report_run") => AfterPointFault(stack[i])

\* the same for the activations during which no other measure() was started
C3_PointFaultUnlessReentered ==
    \A i \in DOMAIN stack :
        (stack[i].fault_at >= 0 /\ stack[i].pc # "report_run" /\ ~stack[i].reentered)
            => AfterPointFault(stack[i])

\* ------------------------------------------------------------------ C4
\* C4: if setup_measurement raises, run_measurement is never called,
\* save_data is never called, shutdown_measurement is not invoked, and the
\* record holds the three empty groups and nothing else.
C4_SetupFaultAborts ==
    \A i \in DOMAIN stack :
        stack[i].fault = "setup_measurement" =>
            /\ stack[i].pc \in {"report_setup", "return"}
            /\ stack[i].calls = 0
            /\ stack[i].saves = 0
            /\ stack[i].shutdowns = 0
            /\ raw_data = EmptyFile

\* setup_measurement registered an observable and then raised; the fault has
\* been reported and measure() is about to return
C4_Witness_SetupFaultReported ==
    /\ stack # <<>>
    /\ Top.fault = "setup_measurement"
    /\ Top.pc = "return"
    /\ Top.reports = 1
    /\ observables # <<>>
    /\ crashed = "none"

\* ------------------------------------------------------------------ C5
\* C5: a run whose setup_measurement returned normally has been persisted
\* exactly once when it ends, however the sweep ended.
C5_PersistedOnce ==
    \A i \in DOMAIN stack :
        (/\ stack[i].setup_ok
         /\ \/ stack[i].pc \in {"shutdown_measurement", "report_shutdown", "return"}
            \/ (i = Len(stack) /\ crashed # "none"))
        => (stack[i].saves = 1 /\ MetaNames \subseteq raw_data.meta)

\* ------------------------------------------------------------------ C6
\* the record of activation f has been written by a save_data that returned
Saved(f) == f.saves = 1 /\ crashed = "none"

AddsOf(body, name) ==
    {ip \in DOMAIN body : body[ip].op = "add_data_point" /\ body[ip].name = name}

\* the script registers `name` as a Number and writes it once per point
WritesNumberOnce(sc, name) ==
    /\ Cardinality(AddsOf(sc.run_measurement, name)) = 1
    /\ \E ip \in DOMAIN sc.setup_measurement :
          /\ sc.setup_measurement[ip].op = "add_observable"
          /\ sc.setup_measurement[ip].name = name
          /\ sc.setup_measurement[ip].data_type = "Number"

\* the store of `name` holds under str(c) the values of the points
\* c*len0 .. c*len0 + len0 - 1 of the complete sweep of activation f
ColumnsComplete(f, name) ==
    LET its == f.iterators_array
        len0 == Len(its[1].values)
        ip == CHOOSE x \in AddsOf(script.run_measurement, name) : TRUE
        i == ObsIndex(observables, name)
    IN  /\ i # 0
        /\ DOMAIN observables[i].data = {Str(c) : c \in 0..((NumPoints(its) \div len0) - 1)}
        /\ \A c \in 0..((NumPoints(its) \div len0) - 1) :
               observables[i].data[Str(c)] = [r \in 1..len0 |-> DataValue(c * len0 + r, ip)]

SweepComplete(f) ==
    /\ f.pc = "save"
    /\ f.done = NumPoints(f.iterators_array)
    /\ f.done > 0

\* C7: after a complete sweep in which add_data_point(X, v_p) was called once
\* in every point p for a Number observable X, X's data holds for every
\* column c a length-len0 array under str(c) whose entry r is v_(c*len0 + r).
C7_NumberColumns ==
    \A i \in DOMAIN stack : \A name \in ParamNames :
        (SweepComplete(stack[i]) /\ WritesNumberOnce(script, name))
            => ColumnsComplete(stack[i], name)

\* the same for the activations during which no other measure() was started
C7_NumberColumnsUnlessReentered ==
    \A i \in DOMAIN stack : \A name \in ParamNames :
        (SweepComplete(stack[i]) /\ WritesNumberOnce(script, name) /\ ~stack[i].reentered)
            => ColumnsComplete(stack[i], name)

\* ------------------------------------------------------------------ C8
\* the script is about to call add_data_point on a name that is not registered
AddsUnregistered ==
    /\ NextOp("add_data_point")
    /\ ObsIndex(observables, Body[Top.ip + 1].name) = 0

\* C8: add_data_point on a name that is not registered in the current run
\* fails with the assertion and leaves every observable's store unchanged.
C8_UnregisteredFails ==
    [][(AddsUnregistered /\ ScriptAddDataPoint) =>
           /\ observables' = observables
           /\ stack'[Len(stack)].err = "AssertionError"
           /\ stack'[Len(stack)].ip = Top.ip]_vars

\* the second run of the instance wrote one observable and then failed the
\* assertion on a name that only an earlier run had registered
C8_Witness_RegisteredBefore ==
    /\ runs = 2
    /\ Len(stack) = 1
    /\ Top.err = "AssertionError"
    /\ Top.pc = "report_run"
    /\ script.run_measurement[Top.ip + 1].name \in registered
    /\ ObsIndex(observables, script.run_measurement[Top.ip + 1].name) = 0
    /\ \E i \in DOMAIN observables : observables[i].data # EmptyDict

\* ------------------------------------------------------------------ C9
\* the script is about to call add_data_point on an observable whose
\* data_type has no branch in add_data_point
AddsUntyped ==
    /\ NextOp("add_data_point")
    /\ ObsIndex(observables, Body[Top.ip + 1].name) # 0
    /\ observables[ObsIndex(observables, Body[Top.ip + 1].name)].data_type
           \notin {"Number", "Histogram"}
    /\ iterators_list # <<>>
    /\ Len(iterators_list[1].values) > 0

C10_ScriptFaultsContained ==
    \A i \in DOMAIN stack :
        stack[i].pc \in {"report_setup", "report_run", "report_shutdown"} => crashed = "none"

\* ----------------------------------------------------------------- C11
\* C11: at most one measure() invocation is in progress at any instant: no
\* second one starts while run_measurement is suspended in wait().
C11_SingleRun == Len(stack) <= 1

\* ----------------------------------------------------------------- C12
\* measure() is called again on the idle instance and gets past the
\* iterator check
StartsAgain ==
    /\ stack = <<>>
    /\ runs >= 1
    /\ StartClicked
    /\ iterators_array(table').err = "none"
    /\ iterators_array(table').list # <<>>

\* what the second call leaves behind when it is safe
FreshRun ==
    /\ current_point' = 0
    /\ observables' = <<>>
    /\ ~flag_stop'
    /\ timestamps' = Zeros(number_points')
    /\ save_file_path' \notin paths
    /\ raw_data' = EmptyFile
    /\ crashed' = "none"

\* C12: a second measure() on the same instance starts with current_point 0,
\* no observable, flag_stop false, a fresh timestamps array and an output
\* location distinct from every earlier one, whatever time has elapsed.
C12_RepeatedRunSafe == [][StartsAgain => FreshRun]_vars

\* the same when the wall clock has reached a second no earlier run began in
C12_RepeatedRunSafeInLaterSecond == [][(StartsAgain /\ now \notin paths) => FreshRun]_vars

\* ----------------------------------------------------------------- C13
\* measure() is called while the form holds an iterator string that is not a
\* list or range of numbers: iterators_array is the empty list
EmptyStart ==
    /\ StartClicked
    /\ iterators_array(table').err = "none"
    /\ iterators_array(table').list = <<>>

\* what the aborted call leaves alone
AbortLeaves ==
    /\ UNCHANGED <<number_points, timestamps, parameters_dict, save_file_path, dicts,
                   paths, raw_data, crashed, registered>>
    /\ stack' = MarkReentered(stack)

\* C13 as claimed: on an empty iterator space measure() returns without
\* raising and leaves the engine state of the previous run unchanged.
C13_EmptyStartChangesNothing ==
    [][EmptyStart =>
          (AbortLeaves /\ UNCHANGED <<observables, current_point, flag_stop, iterators_list>>)]_vars

\* C13 amended: on an empty iterator space measure() returns without raising,
\* resets no device, calls no script callback and creates no output location,
\* but it has already cleared observables, set current_point to 0 and
\* flag_stop to false, and it leaves iterators_list empty.
C13_EmptyStartResets ==
    [][EmptyStart =>
          /\ AbortLeaves
          /\ observables' = <<>>
          /\ current_point' = 0
          /\ ~flag_stop'
          /\ iterators_list' = <<>>]_vars

\* a run has been saved, and the next measure() was aborted at the iterator
\* check: the record and the timestamps are the old ones, the registry is empty
C13_Witness_AbortedAfterRun ==
    /\ runs = 2
    /\ stack = <<>>
    /\ crashed = "none"
    /\ iterators_list = <<>>
    /\ observables = <<>>
    /\ Len(timestamps) >= 2
    /\ timestamps[1] # 0
    /\ "Measurement" \in raw_data.meta
    /\ raw_data.observables # EmptyDict

\* ----------------------------------------------------------------- C14
\* observable k of the registry has a group of its own in the record / has
\* no group in the record
OwnGroup(k) ==
    /\ NameReplace(observables[k].name) \in DOMAIN raw_data.observables
    /\ \A m \in DOMAIN observables :
          (m # k /\ observables[m].save) =>
              NameReplace(observables[m].name) # NameReplace(observables[k].name)

NoGroup(k) ==
    \/ NameReplace(observables[k].name) \notin DOMAIN raw_data.observables
    \/ \E m \in DOMAIN observables :
          /\ observables[m].save
          /\ NameReplace(observables[m].name) = NameReplace(observables[k].name)

GroupsAsRegistered ==
    \A k \in DOMAIN observables :
        IF observables[k].save THEN OwnGroup(k) ELSE NoGroup(k)

\* C14: once save_data has run, an observable registered with save=False has
\* no group in the persisted Observables section, and every observable
\* registered with save=True has a group of its own.
C14_GroupsAsRegistered ==
    \A i \in DOMAIN stack : stack[i].saves = 1 => GroupsAsRegistered

\* the same for the calls of save_data that returned
C14_GroupsWhenSaveReturns ==
    \A i \in DOMAIN stack : Saved(stack[i]) => GroupsAsRegistered

\* ----------------------------------------------------------------- C15
\* save_data returned in activation f after a sweep that ended early
StoppedEarly(f) == Saved(f) /\ f.done < number_points

\* the persisted Number columns: group g, column c
NumberColumns ==
    {gc \in (DOMAIN raw_data.observables) \X (0..number_points) :
        Str(gc[2]) \in DOMAIN raw_data.observables[gc[1]]}

\* the persisted Histogram datasets: group g, key pos_1, pos_2
HistogramSets ==
    {gk \in (DOMAIN raw_data.observables) \X (0..number_points) \X (0..number_points) :
        HistogramKey(gk[2], gk[3]) \in DOMAIN raw_data.observables[gk[1]]}

Len0 == Len(iterators_list[1].values)

C16_MetaInfoAlwaysWritten ==
    \A i \in DOMAIN stack :
        (stack[i].pc = "return" /\ raw_data.exists) => MetaNames \subseteq raw_data.meta

\* the same for the runs whose setup_measurement returned normally
C16_MetaInfoAfterSetup ==
    \A i \in DOMAIN stack :
        (stack[i].pc = "return" /\ raw_data.exists /\ stack[i].setup_ok)
            => MetaNames \subseteq raw_data.meta

\* ----------------------------------------------------------------- C17
\* the steps that raise in shutdown_measurement and that handle the exception
ShutdownFaultStep ==
    \/ (At("shutdown_measurement") /\ ScriptRaise)
    \/ ReportShutdown

\* C17: an exception raised by shutdown_measurement leaves the record written
\* by save_data, flag_stop and the rest of the engine state as they are, and
\* the run goes on to its end only: no point of the sweep and no save_data is
\* executed again.
C17_ShutdownFaultChangesNothing ==
    [][ShutdownFaultStep =>
           /\ UNCHANGED <<engine, raw_data, paths>>
           /\ Top.saves = 1
           /\ Len(stack') = Len(stack)
           /\ stack'[Len(stack)].pc \in {"report_shutdown", "return"}
           /\ stack'[Len(stack)].saves = 1
           /\ stack'[Len(stack)].calls = Top.calls
           /\ stack'[Len(stack)].done = Top.done
           /\ stack'[Len(stack)].shutdowns = 1]_vars

\* a complete sweep was saved, shutdown_measurement raised, the fault was
\* reported and measure() is about to return
C17_Witness_ShutdownFaultReported ==
    /\ stack # <<>>
    /\ Top.fault = "shutdown_measurement"
    /\ Top.pc = "return"
    /\ Top.reports = 1
    /\ Top.done >= 1
    /\ ~flag_stop
    /\ MetaNames \subseteq raw_data.meta
    /\ crashed = "none"

\* ----------------------------------------------------------------- C18
\* the script is about to call add_data_point on an observable registered
\* with data_type Image
AddsImage ==
    /\ NextOp("add_data_point")
    /\ ObsIndex(observables, Body[Top.ip + 1].name) # 0
    /\ observables[ObsIndex(observables, Body[Top.ip + 1].name)].data_type = "Image"

\* the array d as the whole content of an observable's store
Snapshot(d) == <<d>>

\* C18: add_data_point(name, d) on an Image observable replaces the stored
\* data by the snapshot d, so the store then equals the last d written.
C18_ImageHoldsLastSnapshot ==
    [][(AddsImage /\ ScriptAddDataPoint) =>
           observables'[ObsIndex(observables, Body[Top.ip + 1].name)].data
               = Snapshot(DataValue(Top.calls, Top.ip + 1))]_vars

\* what the code does instead: the call returns normally and the store of the
\* Image observable stays the empty container of its registration
C18_ImageStoreStaysEmpty ==
    [][(AddsImage /\ ScriptAddDataPoint) =>
           /\ observables' = observables
           /\ observables[ObsIndex(observables, Body[Top.ip + 1].name)].data = EmptyDict
           /\ stack'[Len(stack)].ip = Top.ip + 1]_vars

\* ----------------------------------------------------------------- C19
\* the script is about to call add_data_point on an observable registered
\* with data_type Histogram, in a sweep that has points
AddsHistogram ==
    /\ NextOp("add_data_point")
    /\ ObsIndex(observables, Body[Top.ip + 1].name) # 0
    /\ observables[ObsIndex(observables, Body[Top.ip + 1].name)].data_type = "Histogram"
    /\ iterators_list # <<>>
    /\ Len(iterators_list[1].values) > 0

\* the key of the current point
CurrentKey == HistogramKey(current_point % Len0, current_point \div Len0)

\* C19 as claimed: add_data_point on a Histogram observable stores a
\* {data, index} record under the key "{pos_1}_{pos_2}", and no record stored
\* before is overwritten by the call.
C19_RecordNeverOverwritten ==
    [][(AddsHistogram /\ ScriptAddDataPoint) =>
           LET i == ObsIndex(observables, Body[Top.ip + 1].name)
           IN  /\ CurrentKey \in DOMAIN observables'[i].data
               /\ \A k \in DOMAIN observables[i].data :
                      observables'[i].data[k] = observables[i].data[k]]_vars

\* C19 amended: add_data_point on a Histogram observable stores the
\* {data, index} record of the call under the key "{pos_1}_{pos_2}" of the
\* current point and leaves the records under every other key, and every
\* other observable, unchanged; a record already stored under the key of the
\* current point (by an earlier call for the same point) is replaced.
C19_RecordReplacedOnlyAtSamePoint ==
    [][(AddsHistogram /\ ScriptAddDataPoint) =>
           LET i == ObsIndex(observables, Body[Top.ip + 1].name)
               d == DataValue(Top.calls, Top.ip + 1)
           IN  /\ DOMAIN observables' = DOMAIN observables
               /\ \A j \in DOMAIN observables : j # i => observables'[j] = observables[j]
               /\ DOMAIN observables'[i].data = DOMAIN observables[i].data \cup {CurrentKey}
               /\ observables'[i].data[CurrentKey] = [data |-> d, index |-> d]
               /\ \A k \in DOMAIN observables[i].data :
                      k # CurrentKey => observables'[i].data[k] = observables[i].data[k]]_vars

\* run_measurement wrote a Histogram observable twice in each of two points:
\* the record of the first point is the one of its second call and it was
\* kept while the second point was written
C19_Witness_SecondCallReplaced ==
    \E i \in DOMAIN observables :
        /\ observables[i].data_type = "Histogram"
        /\ Cardinality(DOMAIN observables[i].data) >= 2
        /\ HistogramKey(0, 0) \in DOMAIN observables[i].data
        /\ observables[i].data[HistogramKey(0, 0)].data = DataValue(1, 2)
        /\ stack # <<>>
        /\ ~Top.reentered

\* ----------------------------------------------------------------- C20
\* the samples the pulses of the sequence ask for: per pulse, and in all
RunLengths == [i \in DOMAIN sequence |-> PulseSamples(sequence[i], n_samples, length)]

RECURSIVE SeqSum(_)
SeqSum(s) == IF s = <<>> THEN 0 ELSE Head(s) + SeqSum(Tail(s))

\* C20: for every sequence of High/Low pulses with positive durations,
\* get_sequence_list(n_samples) returns an array of exactly n_samples samples,
\* the runs of the pulses in pulse order followed by a padding of at most one
\* zero; the runs never add up to more than n_samples.
C20_SequenceListExact ==
    ret.called =>
        /\ length > 0
        /\ SeqSum(RunLengths) <= n_samples
        /\ n_samples - SeqSum(RunLengths) <= 1
        /\ ret.err = "none"
        /\ Len(ret.array) = n_samples

\* what holds for the pulses that are whole numbers of ns long: an array of
\* n_samples samples is returned, and the padding is at most one sample per
\* pulse
C20_WholeNanosecondPulses ==
    (ret.called /\ \A i \in DOMAIN sequence : sequence[i].length % Resolution = 0) =>
        /\ ret.err = "none"
        /\ Len(ret.array) = n_samples
        /\ n_samples - SeqSum(RunLengths) \in 0..Len(sequence)

\* ----------------------------------------------------------------- C21
\* the product of the lengths of the iterators of `its`
LengthProduct(its) == SeqProduct([i \in DOMAIN its |-> Len(its[i].values)])

\* C21: while a run that got past the iterator check is active,
\* number_points is the product of the lengths of all iterators and
\* timestamps has exactly number_points entries.
C21_NumberPointsIsProduct ==
    stack # <<>> =>
        /\ number_points = LengthProduct(iterators_list)
        /\ Len(timestamps) = number_points

\* the same at the moment measure() has set the two up (lines 65-69), and
\* for the runs during which measure() was not entered again
C21_ProductWhenSetUp ==
    /\ [][(StartClicked /\ Len(stack') > Len(stack)) =>
              /\ number_points' = LengthProduct(iterators_list')
              /\ timestamps' = Zeros(number_points')]_vars
    /\ [](\A i \in DOMAIN stack :
              ~stack[i].reentered =>
                  /\ number_points = LengthProduct(iterators_list)
                  /\ number_points = NumPoints(stack[i].iterators_array)
                        \/ stack[i].pc \in {"devices", "setup_measurement", "report_setup",
                                             "plots", "iterate", "return"}
                  /\ Len(timestamps) = number_points)

\* ----------------------------------------------------------------- C22
\* C22 as claimed: within a run current_point never decreases, and it lies
\* in [0, number_points) in every state of the run, also after the last point
\* of a complete sweep.
C22_CurrentPointBelowNumberPoints ==
    [][stack' # <<>> =>
           /\ current_point' \in 0..(number_points' - 1)
           /\ Len(stack') = Len(stack) => current_point' >= current_point]_vars

\* C22 amended: current_point lies in [0, number_points] in every state and
\* reaches number_points with the last point of a complete sweep; it never
\* decreases except that every call of measure() sets it to 0.
C22_CurrentPointUpToNumberPoints ==
    [][/\ current_point' \in 0..number_points'
       /\ current_point' >= current_point \/ (StartClicked /\ current_point' = 0)
       /\ (PointDone /\ crashed' = "none") => current_point' = current_point + 1
       /\ \A i \in DOMAIN stack' :
              (/\ ~stack'[i].reentered
               /\ stack'[i].pc = "save"
               /\ stack'[i].done = NumPoints(stack'[i].iterators_array))
              => current_point' = number_points']_vars

\* a complete sweep of several points has ended: current_point is
\* number_points
C22_Witness_AfterLastPoint ==
    /\ stack # <<>>
    /\ ~Top.reentered
    /\ Top.pc = "save"
    /\ Top.done = NumPoints(Top.iterators_array)
    /\ current_point = number_points
    /\ number_points >= 2

\* ----------------------------------------------------------------- C23
\* the phases of measure() after the output location has been created, by pc:
\* soft reset, setup_measurement, plot rebuild, sweep, persistence,
\* shutdown_measurement, end
Phase(pc) ==
    CASE pc = "devices" -> 1
      [] pc \in {"setup_measurement", "report_setup"} -> 2
      [] pc = "plots" -> 3
      [] pc \in {"iterate"} \cup SweepPcs -> 4
      [] pc = "save" -> 5
      [] pc \in {"shutdown_measurement", "report_shutdown"} -> 6
      [] OTHER -> 7

\* C23: a run of measure() goes through its phases in the order reset,
\* fetch, creation of the output location, soft reset of the devices,
\* setup_measurement, plot rebuild, sweep, persistence, shutdown_measurement,
\* one after the other: an activation begins at the soft reset with the state
\* reset, the iterators fetched and the empty record created, every step
\* stays in its phase or enters the next one (or ends the run after a setup
\* fault), and shutdown_measurement is entered only after save_data returned.
C23_PhasesInOrder ==
    [][/\ Len(stack') > Len(stack) =>
              /\ StartClicked
              /\ Len(stack') = Len(stack) + 1
              /\ stack'[Len(stack')].pc = "devices"
              /\ observables' = <<>> /\ current_point' = 0 /\ ~flag_stop'
              /\ iterators_list' = iterators_array(table').list
              /\ timestamps' = Zeros(number_points')
              /\ save_file_path' \in paths'
              /\ raw_data' = EmptyFile
       /\ \A i \in DOMAIN stack \cap DOMAIN stack' :
              LET a == Phase(stack[i].pc)
                  b == Phase(stack'[i].pc)
              IN  /\ \/ b = a
                     \/ b = a + 1
                     \/ stack[i].pc = "report_setup" /\ stack'[i].pc = "return"
                  /\ b >= 3 => (stack'[i].setup_ok \/ stack'[i].pc = "return")
                  /\ b = 6 => stack'[i].saves = 1
                  /\ (a = 5 /\ b = 6) => MeasureSave
                  /\ (a = 1 /\ b = 2) => MeasureDevices]_vars

\* a run has gone through every phase of a sweep of several points and is
\* about to return
C23_Witness_AllPhasesDone ==
    /\ stack # <<>>
    /\ Top.pc = "return"
    /\ Top.setup_ok
    /\ Top.done >= 2
    /\ Top.saves = 1
    /\ Top.shutdowns = 1
    /\ crashed = "none"

\* ----------------------------------------------------------------- C24
\* activation f, whose sweep had begun stop_at invocations of run_measurement
\* when flag_stop became true, began no further one and completed no point
\* but those; once its sweep has ended without a fault, the invocation that
\* was in flight has been recorded as a point
AfterStopRequest(f) ==
    /\ f.calls = f.stop_at
    /\ f.done <= f.stop_at
    /\ f.done >= f.stop_at - 1
    /\ (f.pc \in AfterSweepPcs /\ f.fault = "none") => f.done = f.stop_at

\* the activations are where they were, but for the history of the stop
SamePlaces ==
    /\ Len(stack') = Len(stack)
    /\ \A i \in DOMAIN stack :
           /\ stack'[i].pc = stack[i].pc
           /\ stack'[i].ip = stack[i].ip
           /\ stack'[i].waiting = stack[i].waiting
           /\ stack'[i].calls = stack[i].calls
           /\ stack'[i].done = stack[i].done

\* C24: a stop requested while a run_measurement invocation is in flight
\* does not preempt it; the invocation runs to its end and its point is
\* recorded, and the sweep then ends: after the request no further invocation
\* begins, and at most the one point in flight completes.
C24_StopDoesNotPreempt ==
    [][/\ StopClicked => (SamePlaces /\ UNCHANGED <<current_point, timestamps, observables>>)
       /\ \A i \in DOMAIN stack' :
              (stack'[i].stop_at >= 0 /\ stack'[i].fault = "none")
                  => AfterStopRequest(stack'[i])]_vars

\* the same for the activations during which no other measure() was started
C24_StopUnlessReentered ==
    [][/\ StopClicked => (SamePlaces /\ UNCHANGED <<current_point, timestamps, observables>>)
       /\ \A i \in DOMAIN stack' :
              (stack'[i].stop_at >= 0 /\ stack'[i].fault = "none" /\ ~stack'[i].reentered)
                  => AfterStopRequest(stack'[i])]_vars

\* ----------------------------------------------------------------- C25
\* the names of the iterators of activation f
IteratorNames(f) == {f.iterators_array[j].name : j \in DOMAIN f.iterators_array}

\* the parameter mapping that run_measurement of activation f is called with
\* holds every iterator's value of the current point under the iterator's
\* name, and the value of the form under every other name
ParametersOfPoint(f) ==
    LET d == dicts[f.var_dict]
    IN  /\ \A j \in DOMAIN f.iterators_array :
               /\ f.iterators_array[j].name \in DOMAIN d
               /\ d[f.iterators_array[j].name] = f.iterators_array[j].values[f.pos[j]]
        /\ \A n \in ParamNames \ IteratorNames(f) :
               n \in DOMAIN d /\ d[n] = UiParameters[n]

\* C25: at every run_measurement invocation the parameter mapping holds,
\* under each iterator's name, that iterator's value for the current point,
\* and every parameter that is no iterator still has the value supplied at
\* the start of the run.
C25_ParametersOfPoint ==
    \A i \in DOMAIN stack :
        (stack[i].pc = "run_measurement" /\ stack[i].ip = 0) => ParametersOfPoint(stack[i])

\* the same for the iterator lists without a repeated name
C25_ParametersOfDistinctIterators ==
    \A i \in DOMAIN stack :
        (/\ stack[i].pc = "run_measurement" /\ stack[i].ip = 0
         /\ \A j, k \in DOMAIN stack[i].iterators_array :
                j # k => stack[i].iterators_array[j].name # stack[i].iterators_array[k].name)
        => ParametersOfPoint(stack[i])

\* ----------------------------------------------------------------- C26
\* C26: every iterator that the parser hands to the engine has at least one
\* value, so that number_points >= 1 in every run that passed the iterator
\* check.
C26_EveryIteratorHasAValue ==
    /\ \A j \in DOMAIN iterators_list : Len(iterators_list[j].values) >= 1
    /\ \A i \in DOMAIN stack :
           stack[i].pc # "return" => number_points >= 1

\* a range whose stop lies one step before its start is handed over as an
\* iterator without values, and the run over it has no point
C26_RunWithoutPoints ==
    /\ stack # <<>>
    /\ \E j \in DOMAIN iterators_list : iterators_list[j].values = <<>>
    /\ number_points = 0
    /\ stack[Len(stack)].pc = "save"

\* ----------------------------------------------------------------- C27
\* C27: for every iterator string that is no valid list or range of numbers,
\* a range with step 0 included, the parser returns the empty iterator list
\* and never raises an exception into measure().
C27_ParserNeverRaises ==
    /\ iterators_array(table).err = "none"
    /\ crashed # "ZeroDivisionError"

\* the strings that are no numbers at all are reported by the parser itself
C27_TextIsReportedByParser ==
    (\E j \in DOMAIN table : \E k \in DOMAIN table[j].str : table[j].str[k].kind = "text")
    => (iterators_array(table) = [err |-> "none", list |-> <<>>] /\ iterators_list = <<>>)

\* ----------------------------------------------------------------- C28
\* the bookkeeping of the sweep of activation f: current_point counts the
\* invocations that returned and were recorded, the next write is in range,
\* and exactly the first current_point entries of timestamps are written
SweepBookkeeping(f) ==
    /\ current_point = f.done
    /\ f.pc = "point" => (current_point < number_points /\ current_point < Len(timestamps))
    /\ Len(timestamps) = number_points
    /\ \A p \in 1..Len(timestamps) : (timestamps[p] # 0) <=> (p <= current_point)

\* C28: throughout a sweep current_point equals the number of run_measurement
\* invocations of the run that returned without raising, every write of
\* timestamps[current_point] is in range, and exactly the entries below
\* current_point are written, the others still zero.
C28_SweepBookkeeping ==
    \A i \in DOMAIN stack : stack[i].pc \in SweepPcs => SweepBookkeeping(stack[i])

\* the same for the activations during which no other measure() started
C28_BookkeepingUnlessReentered ==
    \A i \in DOMAIN stack :
        (stack[i].pc \in SweepPcs /\ ~stack[i].reentered) => SweepBookkeeping(stack[i])

\* ----------------------------------------------------------------- C29
\* measure() of activation i has ended: it is about to return, or an
\* exception raised in its own statements has left it
MeasureEnded(i) ==
    \/ stack[i].pc = "return"
    \/ crashed # "none" /\ i = Len(stack) /\ ~stack[i].waiting

\* C29: in every run in which setup_measurement returned normally,
\* shutdown_measurement has been invoked exactly once when measure() ends,
\* also when the plot rebuild, a redraw or persistence fails.
C29_ShutdownBeforeMeasureEnds ==
    \A i \in DOMAIN stack :
        (stack[i].setup_ok /\ MeasureEnded(i)) => stack[i].shutdowns = 1

\* shutdown_measurement is never invoked twice, and it has been invoked once
\* in every run with a normal setup whose measure() returns
C29_ShutdownWhenMeasureReturns ==
    \A i \in DOMAIN stack :
        /\ stack[i].shutdowns <= 1
        /\ (stack[i].setup_ok /\ stack[i].pc = "return") => stack[i].shutdowns = 1

\* ----------------------------------------------------------------- C30
\* the names save_data creates in the group "Iterators" are pairwise
\* distinct (lines 254-256)
DistinctIteratorDatasets(iters) ==
    /\ \A j \in DOMAIN iters : NameReplace(iters[j].name) # NameTimestamps
    /\ \A j, k \in DOMAIN iters :
           j # k => NameReplace(iters[j].name) # NameReplace(iters[k].name)

\* the names save_data creates in the group "Observables" are pairwise
\* distinct (lines 260-265)
DistinctObservableGroups(obs) ==
    \A j, k \in DOMAIN obs :
        (j # k /\ obs[j].save /\ obs[k].save)
        => NameReplace(obs[j].name) # NameReplace(obs[k].name)

\* C30: save_data never tries to create two entries of the same name in one
\* group: whenever it is called, the persisted iterator dataset names are
\* pairwise distinct and differ from "Timestamps", and the persisted
\* observable group names are pairwise distinct.
C30_PersistedNamesDistinct ==
    At("save") => /\ DistinctIteratorDatasets(iterators_list)
                  /\ DistinctObservableGroups(observables)

\* the iterator half alone, and the observable half alone
C30_IteratorDatasetsDistinct == At("save") => DistinctIteratorDatasets(iterators_list)
C30_ObservableGroupsDistinct == At("save") => DistinctObservableGroups(observables)

\* save_data of a run that no other measure() interfered with does not fail
\* on an existing name when the names are distinct
C30_DistinctNamesAreSaved ==
    (/\ stack # <<>> /\ stack[Len(stack)].pc = "save" /\ ~stack[Len(stack)].reentered
     /\ DistinctIteratorDatasets(iterators_list)
     /\ DistinctObservableGroups(observables))
    => crashed # "ValueError"

\* save_data of a run that no other measure() interfered with has written
\* the meta information and the timestamps and then failed on a name that
\* exists
C30_CollisionRaised ==
    /\ stack # <<>> /\ stack[Len(stack)].pc = "save" /\ crashed = "ValueError"
    /\ stack[Len(stack)].saves = 1 /\ ~stack[Len(stack)].reentered
    /\ "Measurement" \in raw_data.meta
    /\ NameTimestamps \in DOMAIN raw_data.iterators

====
